---------------------------- MODULE Spec2Model ----------------------------
(***************************************************************************)
(* A model of the timegrid timetable application: the repository tables,   *)
(* the generate_timetable request (time-slot generation, load_data,        *)
(* create_variables, the constraint model, the CP-SAT outcome,             *)
(* save_solution / generate_conflict_report) and the update_entry request. *)
(***************************************************************************)
EXTENDS Integers, Sequences, FiniteSets, TLC

VARIABLES
    settings,      \* SchoolSettings rows
    timeslots,     \* TimeSlot rows
    nextSlotId,    \* next TimeSlot primary key
    rooms,         \* Room rows
    teachers,      \* Teacher rows
    classes,       \* ClassGroup rows
    subjects,      \* Subject rows
    allocations,   \* TeacherSubjectAllocation rows, in persistence order
    entries,       \* TimetableEntry rows as committed (what any reader sees)
    nextEntryId,   \* next TimetableEntry primary key
    reports,       \* ConflictReport rows, in insertion order
    pc,            \* position of the generate_timetable request
    variables,     \* TimetableSolver.variables (the keys of the dict)
    model,         \* the constraints added to TimetableSolver.model
    status,        \* terminal status of CpSolver.Solve
    solution,      \* the list returned by solve()
    auxiliary,     \* CpSolver's values of the auxiliary variables
    txEntries,     \* TimetableEntry as seen inside the open transaction
    outcome,       \* where the last request redirected to
    solves,        \* number of generate requests started
    entriesAtStart,\* TimetableEntry as it was when the request started
    reporterRuns,  \* calls of generate_conflict_report in this request
    lastEdit,      \* the last update_entry request and its response
    requests       \* the update_entry requests that are processed concurrently

vars == <<settings, timeslots, nextSlotId, rooms, teachers, classes, subjects,
          allocations, entries, nextEntryId, reports, pc, variables, model,
          status, solution, auxiliary, txEntries, outcome, solves, entriesAtStart,
          reporterRuns, lastEdit, requests>>

\* Number of generate requests in one behaviour.
MaxSolves == 2

Range(f) == {f[i] : i \in DOMAIN f}

(***************************************************************************)
(* Availability JSON.  A key is an int or a str; a period value is a JSON  *)
(* scalar; a day value is a dict of period values or something else.       *)
(***************************************************************************)
IntKey(n) == [kind |-> "int", n |-> n, s |-> ""]
StrKey(str) == [kind |-> "str", n |-> 0, s |-> str]

Digits == <<"0", "1", "2", "3", "4", "5", "6", "7", "8", "9">>

\* str(k) of a dict key or of an index
Str(k) == IF k.kind = "str" THEN k ELSE StrKey(Digits[k.n + 1])

JBool(b) == [kind |-> "bool", n |-> IF b THEN 1 ELSE 0]
JNull == [kind |-> "null", n |-> 0]
JInt(n) == [kind |-> "int", n |-> n]
\* a string value, by its length
JStr(len) == [kind |-> "str", n |-> len]

\* bool(pv)
Truthy(pv) == pv.kind # "null" /\ pv.n # 0

JDict(items) == [kind |-> "dict", items |-> items]
JOther(pv) == [kind |-> "other", items |-> <<<<StrKey(""), pv>>>>]

\* dict.get(key, default) on a dict given as a function
DictGet(d, key, default) == IF key \in DOMAIN d THEN d[key] ELSE default

\* d[key] = value
DictSet(d, key, value) ==
    [k \in DOMAIN d \cup {key} |-> IF k = key THEN value ELSE d[k]]

EmptyDict == [k \in {} |-> FALSE]

\* nested[str(pk)] = bool(pv) for the items of a day, in order
RECURSIVE NormalizeNested(_)
NormalizeNested(items) ==
    IF items = <<>> THEN EmptyDict
    ELSE LET n == Len(items)
             rest == NormalizeNested(SubSeq(items, 1, n - 1))
         IN  DictSet(rest, Str(items[n][1]), Truthy(items[n][2]))

\* get_availability_dict: keys to str, nested values to bool
RECURSIVE get_availability_dict(_)
get_availability_dict(raw) ==
    IF raw = <<>> THEN EmptyDict
    ELSE LET n == Len(raw)
             rest == get_availability_dict(SubSeq(raw, 1, n - 1))
             v == raw[n][2]
         IN  IF v.kind = "dict"
             THEN DictSet(rest, Str(raw[n][1]),
                          [isdict |-> TRUE, nested |-> NormalizeNested(v.items)])
             ELSE DictSet(rest, Str(raw[n][1]),
                          [isdict |-> FALSE, nested |-> EmptyDict])

\* day.get(str(period_index), day.get(period_index, True))
PeriodLookup(nested, period_index) ==
    DictGet(nested, Str(IntKey(period_index)),
            DictGet(nested, IntKey(period_index), TRUE))

\* Teacher.is_available / Room.is_available
is_available(raw, day_index, period_index) ==
    LET avail == get_availability_dict(raw)
        day == DictGet(avail, Str(IntKey(day_index)),
                       DictGet(avail, IntKey(day_index),
                               [isdict |-> TRUE, nested |-> EmptyDict]))
    IN  IF ~day.isdict THEN TRUE
        ELSE PeriodLookup(day.nested, period_index)

(***************************************************************************)
(* generate_timeslots: the rows it builds, before they get primary keys.   *)
(* Times are minutes of the day; .time() drops the date.                   *)
(***************************************************************************)
\* one "for _ in range(count)" loop of lessons
RECURSIVE LessonRun(_, _, _, _, _)
LessonRun(day_idx, count, period_idx, current_time, s) ==
    IF count <= 0
    THEN [slots |-> <<>>, period_idx |-> period_idx, current_time |-> current_time]
    ELSE LET end_time == (current_time + s.lesson_duration_min) % 1440
             rest == LessonRun(day_idx, count - 1, period_idx + 1, end_time, s)
         IN  [slots |-> <<[day_index |-> day_idx, period_index |-> period_idx,
                           start_time |-> current_time % 1440,
                           end_time |-> end_time]>> \o rest.slots,
              period_idx |-> rest.period_idx,
              current_time |-> rest.current_time]

\* a day whose period index starts again at 0 after the break
DaySlotsRestartingAfterBreak(day_idx, s) ==
    LET before == LessonRun(day_idx, s.periods_before_break, 0,
                            s.lesson_start_time, s)
        after == LessonRun(day_idx, s.periods_after_break, 0,
                           before.current_time + s.break_duration_min, s)
    IN  before.slots \o after.slots

\* the body of "for day_idx in range(settings.days_per_week)"
DaySlots(day_idx, s) ==
    LET before == LessonRun(day_idx, s.periods_before_break, 0,
                            s.lesson_start_time, s)
        after == LessonRun(day_idx, s.periods_after_break, before.period_idx,
                           before.current_time + s.break_duration_min, s)
    IN  before.slots \o after.slots

RECURSIVE NewTimeslots(_, _)
NewTimeslots(days, s) ==
    IF days <= 0 THEN <<>>
    ELSE NewTimeslots(days - 1, s) \o DaySlots(days - 1, s)

\* bulk_create: the rows get consecutive primary keys from firstId
WithIds(rows, firstId) ==
    {[id |-> firstId + i - 1,
      day_index |-> rows[i].day_index, period_index |-> rows[i].period_index,
      start_time |-> rows[i].start_time, end_time |-> rows[i].end_time]
        : i \in 1..Len(rows)}

(***************************************************************************)
(* Rows by primary key.                                                    *)
(***************************************************************************)
ById(table, id) == CHOOSE row \in Range(table) : row.id = id
SlotById(id) == CHOOSE ts \in timeslots : ts.id = id

teacher_is_available(teacher_id, ts) ==
    is_available(ById(teachers, teacher_id).availability,
                 ts.day_index, ts.period_index)

room_is_available(room, ts) ==
    is_available(room.availability, ts.day_index, ts.period_index)

(***************************************************************************)
(* TimetableSolver.create_variables                                        *)
(***************************************************************************)
rooms_by_type(room_type) == {r \in Range(rooms) : r.room_type = room_type}

\* candidate rooms without the room type filter
candidate_rooms_of_any_type(subject) == Range(rooms)

\* candidate rooms (type fallback to all)
candidate_rooms(subject) ==
    IF rooms_by_type(subject.requires_room_type) = {}
    THEN Range(rooms)
    ELSE rooms_by_type(subject.requires_room_type)

\* the pruning without the teacher availability check
FeasibleIgnoringTeacher(classgroup, teacher_id, ts, room) ==
    /\ room_is_available(room, ts)
    /\ ~(room.capacity < classgroup.student_count)

\* the pruning without the capacity check
FeasibleIgnoringCapacity(classgroup, teacher_id, ts, room) ==
    /\ teacher_is_available(teacher_id, ts)
    /\ room_is_available(room, ts)

\* the pruning conditions of the three nested loops
Feasible(classgroup, teacher_id, ts, room) ==
    /\ teacher_is_available(teacher_id, ts)
    /\ room_is_available(room, ts)
    /\ ~(room.capacity < classgroup.student_count)

\* the keys (class, subject, teacher, room, timeslot, period_num) of one allocation
AllocationVariables(allocation) ==
    LET classgroup == ById(classes, allocation.classgroup)
        subject == ById(subjects, allocation.subject)
    IN  {<<classgroup.id, subject.id, allocation.teacher, c[3].id, c[2].id, c[1]>> :
            c \in {x \in (0..(subject.weekly_periods - 1)) \X timeslots
                              \X candidate_rooms(subject) :
                      Feasible(classgroup, allocation.teacher, x[2], x[3])}}

create_variables ==
    UNION {AllocationVariables(allocations[i]) : i \in DOMAIN allocations}

\* the variables of one allocation among vs
OfAllocation(vs, a) ==
    {k \in vs : k[1] = a.classgroup /\ k[2] = a.subject /\ k[3] = a.teacher}

(***************************************************************************)
(* TimetableSolver.add_hard_constraints.  The CP-SAT model is the record   *)
(* of the constraints added: exactly_one (sum == 1), at_most_one           *)
(* (sum <= 1) and, per allocation that needs a block, its start-room       *)
(* indicators, of which exactly one is true; a true indicator enforces     *)
(* sum >= 1 on each of its links.                                          *)
(***************************************************************************)
\* 1) each (allocation, period_num) with candidates is scheduled exactly once
period_constraints(vs) ==
    {g \in UNION {{{k \in OfAllocation(vs, allocations[i]) : k[6] = period_num} :
                     period_num \in 0..(ById(subjects, allocations[i].subject).weekly_periods - 1)} :
                   i \in DOMAIN allocations} :
        g # {}}

\* 2) no teacher double-booking
teacher_constraints(vs) ==
    {g \in {{k \in vs : k[3] = x[1].id /\ k[5] = x[2].id} :
              x \in Range(teachers) \X timeslots} : g # {}}

\* 3) no class double-booking
class_constraints(vs) ==
    {g \in {{k \in vs : k[1] = x[1].id /\ k[5] = x[2].id} :
              x \in Range(classes) \X timeslots} : g # {}}

\* 4) no room double-booking
room_constraints(vs) ==
    {g \in {{k \in vs : k[4] = x[1].id /\ k[5] = x[2].id} :
              x \in Range(rooms) \X timeslots} : g # {}}

\* sorted(slots_by_day[day], key=period_index)
RECURSIVE SortByPeriod(_)
SortByPeriod(S) ==
    IF S = {} THEN <<>>
    ELSE LET first == CHOOSE x \in S : \A y \in S : x.period_index <= y.period_index
         IN  <<first>> \o SortByPeriod(S \ {first})

\* the start-room indicators of one allocation on one day
StartRoomVars(alloc, vs, day_idx) ==
    LET k == ById(subjects, alloc.subject).weekly_periods
        day_slots == SortByPeriod({ts \in timeslots : ts.day_index = day_idx})
        room_ids == {key[4] : key \in OfAllocation(vs, alloc)}
        seq_ts(start) == SubSeq(day_slots, start, start + k - 1)
        ok_seq(start) ==
            \A idx \in 1..(k - 1) :
                seq_ts(start)[idx + 1].period_index = seq_ts(start)[idx].period_index + 1
        key(room_id, start, p_idx) ==
            <<alloc.classgroup, alloc.subject, alloc.teacher, room_id,
              seq_ts(start)[p_idx + 1].id, p_idx>>
        has_all(room_id, start) == \A p_idx \in 0..(k - 1) : key(room_id, start, p_idx) \in vs
    IN  {[alloc |-> alloc.id, day_idx |-> day_idx, start_i |-> x[1] - 1, room_id |-> x[2],
          links |-> {{v \in vs : v = key(x[2], x[1], p_idx)} : p_idx \in 0..(k - 1)}] :
            x \in {y \in (1..(Len(day_slots) - k + 1)) \X room_ids :
                      ok_seq(y[1]) /\ has_all(y[2], y[1])}}

\* whether the loop body of 5) is entered for the allocation
NeedsBlock(alloc) ==
    /\ ById(subjects, alloc.subject).requires_consecutive_periods
    /\ ~(ById(subjects, alloc.subject).weekly_periods <= 1)

start_room_vars(alloc, vs) ==
    UNION {StartRoomVars(alloc, vs, day_idx) : day_idx \in {ts.day_index : ts \in timeslots}}

\* 5) one "sum(start_room_vars) == 1" per allocation that has start positions
consecutive_constraints(vs) ==
    {b \in {start_room_vars(allocations[i], vs) :
              i \in {j \in DOMAIN allocations : NeedsBlock(allocations[j])}} : b # {}}

add_hard_constraints(vs) ==
    [exactly_one |-> period_constraints(vs),
     at_most_one |-> teacher_constraints(vs) \cup class_constraints(vs)
                        \cup room_constraints(vs),
     start_blocks |-> consecutive_constraints(vs)]

NoModel ==
    [exactly_one |-> {}, at_most_one |-> {}, start_blocks |-> {},
     gap_penalties |-> {}, early_terms |-> <<>>, workload_vars |-> {},
     allocated_vars |-> {}]

(***************************************************************************)
(* CpSolver.Solve: an assignment x (the set of variables that are 1)       *)
(* satisfies the model; the start-room indicators are existential.  The    *)
(* constraints add_soft_constraints adds only define auxiliary variables   *)
(* (reified sums, a max) that every x can extend, so they exclude no x.    *)
(***************************************************************************)
Satisfies(x, m) ==
    /\ \A g \in m.exactly_one : Cardinality(g \cap x) = 1
    /\ \A g \in m.at_most_one : Cardinality(g \cap x) <= 1
    /\ \A b \in m.start_blocks : \E y \in b : \A link \in y.links : link \cap x # {}

\* v can join the partial assignment p without breaking a sum <= 1
Compatible(p, v, m) == \A g \in m.at_most_one : v \in g => g \cap p = {}

\* one variable out of each of the groups, never breaking a sum <= 1
RECURSIVE OnePerGroup(_, _)
OnePerGroup(groups, m) ==
    IF groups = {} THEN {{}}
    ELSE LET g == CHOOSE h \in groups : TRUE
         IN  {pv[1] \cup {pv[2]} :
                pv \in {qv \in OnePerGroup(groups \ {g}, m) \X g :
                          Compatible(qv[1], qv[2], m)}}

\* every assignment that satisfies the model
Solutions(vs, m) ==
    LET free == vs \ UNION m.exactly_one
    IN  {x \in {pf[1] \cup pf[2] : pf \in OnePerGroup(m.exactly_one, m) \X SUBSET free} :
            Satisfies(x, m)}

\* extract_solution: the keys whose variable is 1
extract_solution(x, vs) == {k \in vs : k \in x}

(***************************************************************************)
(* TimetableSolver.add_soft_constraints: the auxiliary variables it        *)
(* creates, the constraints that tie them to the assignment, and the       *)
(* objective terms (variable, weight) whose sum is minimised.              *)
(***************************************************************************)
\* the variables of a teacher at a timeslot
VarsAt(vs, teacher_id, ts) == {k \in vs : k[3] = teacher_id /\ k[5] = ts.id}

\* Soft 1: the windows (slot_before, slot_gap, slot_after) of one teacher's day
DayWindows(vs, teacher, day_idx) ==
    LET day_slots == SortByPeriod({ts \in timeslots : ts.day_index = day_idx})
    IN  {[teacher |-> teacher.id, day_idx |-> day_idx, i |-> i,
          vars_before |-> VarsAt(vs, teacher.id, day_slots[i + 1]),
          vars_gap |-> VarsAt(vs, teacher.id, day_slots[i + 2]),
          vars_after |-> VarsAt(vs, teacher.id, day_slots[i + 3])] :
            i \in 0..(Len(day_slots) - 3)}

\* the windows that get has_before, has_gap, has_after and gap_exists
gap_penalties(vs) ==
    {w \in UNION {DayWindows(vs, x[1], x[2]) :
                    x \in Range(teachers) \X {ts.day_index : ts \in timeslots}} :
        ~(w.vars_before = {} \/ w.vars_after = {})}

\* Soft 2: how many times (var, -2) is appended for the variable k
early_terms(k) ==
    Cardinality({x \in (DOMAIN allocations) \X timeslots :
                    /\ ById(subjects, allocations[x[1]].subject).difficulty = "difficult"
                    /\ x[2].period_index <= 1
                    /\ k[1] = allocations[x[1]].classgroup
                    /\ k[2] = allocations[x[1]].subject
                    /\ k[5] = x[2].id})

\* Soft 3: the daily_load variables of a teacher, one per day with variables
daily_loads(vs, teacher) ==
    {d \in {[teacher |-> teacher.id, day_idx |-> day_idx,
             ub |-> Cardinality({ts \in timeslots : ts.day_index = day_idx}),
             day_vars |-> {k \in vs : /\ k[3] = teacher.id
                                       /\ SlotById(k[5]).day_index = day_idx}] :
               day_idx \in {ts.day_index : ts \in timeslots}} :
        d.day_vars # {}}

\* the max_daily variables: the teachers that have a daily_load
workload_vars(vs) ==
    {[teacher |-> t.id, daily_loads |-> daily_loads(vs, t)] :
        t \in {u \in Range(teachers) : daily_loads(vs, u) # {}}}

\* Soft 4: the (allocation, period_num) that get an allocated indicator
allocated_vars(vs) ==
    {a \in UNION {{[alloc |-> allocations[i].id, period_num |-> period_num,
                    vars_for_slot |-> {k \in OfAllocation(vs, allocations[i]) :
                                          k[6] = period_num}] :
                      period_num \in 0..(ById(subjects, allocations[i].subject).weekly_periods - 1)} :
                    i \in DOMAIN allocations} :
        a.vars_for_slot # {}}

add_soft_constraints(vs) ==
    [gap_penalties |-> gap_penalties(vs),
     early_terms |-> [k \in vs |-> early_terms(k)],
     workload_vars |-> workload_vars(vs),
     allocated_vars |-> allocated_vars(vs)]

\* an indicator with the constraint of its true side only
EnforcedWhenTrue(b, vs, x) == b => vs \cap x # {}

\* Add(sum(vs) >= 1).OnlyEnforceIf(b) and Add(sum(vs) == 0).OnlyEnforceIf(b.Not())
Reified(b, vs, x) == (b => vs \cap x # {}) /\ (~b => vs \cap x = {})

\* the constraints on the four indicators of one window
GapConstraints(w, g, x) ==
    /\ Reified(g.has_before, w.vars_before, x)
    /\ Reified(g.has_gap, w.vars_gap, x)
    /\ Reified(g.has_after, w.vars_after, x)
    /\ g.gap_exists => (g.has_before /\ g.has_after /\ ~g.has_gap)

\* the value of daily_load: NewIntVar(0, len(day_slots)) == sum(day_vars)
DailyLoad(d, x) == Cardinality(d.day_vars \cap x)

\* AddMaxEquality(max_daily, daily_loads)
MaxDaily(wl, x) ==
    CHOOSE n \in {DailyLoad(d, x) : d \in wl.daily_loads} :
        \A d \in wl.daily_loads : DailyLoad(d, x) <= n

\* every value the auxiliary variables can take next to the assignment x
AuxiliaryValues(x, m) ==
    IF \E wl \in m.workload_vars : \E d \in wl.daily_loads : DailyLoad(d, x) > d.ub
    THEN {}
    ELSE {[gap |-> v[1], allocated |-> v[2]] :
            v \in {g \in [m.gap_penalties ->
                             [has_before : BOOLEAN, has_gap : BOOLEAN,
                              has_after : BOOLEAN, gap_exists : BOOLEAN]] :
                        \A w \in m.gap_penalties : GapConstraints(w, g[w], x)}
                  \X {al \in [m.allocated_vars -> BOOLEAN] :
                        \A a \in m.allocated_vars : Reified(al[a], a.vars_for_slot, x)}}

NoValues == [gap |-> <<>>, allocated |-> <<>>]

RECURSIVE SumOf(_, _)
SumOf(f, S) ==
    IF S = {} THEN 0
    ELSE LET e == CHOOSE y \in S : TRUE IN f[e] + SumOf(f, S \ {e})

\* the objective without the (allocated, -50) terms
ObjectiveWithoutAllocated(x, v, m) ==
    5 * Cardinality({w \in m.gap_penalties : v.gap[w].gap_exists})
    + (-2) * SumOf(m.early_terms, x)
    + SumOf([wl \in m.workload_vars |-> MaxDaily(wl, x)], m.workload_vars)

\* sum(weight * var for (var, weight) in objective_terms)
Objective(x, v, m) ==
    ObjectiveWithoutAllocated(x, v, m)
    + (-50) * Cardinality({a \in m.allocated_vars : v.allocated[a]})

\* every solution of the built model: an assignment and auxiliary values
FullSolutions(vs, m) ==
    UNION {{<<x, v>> : v \in AuxiliaryValues(x, m)} : x \in Solutions(vs, m)}

\* the least objective value among the solutions
MinObjective(full, m) ==
    LET objectives == {Objective(s[1], s[2], m) : s \in full}
    IN  CHOOSE n \in objectives : \A k \in objectives : n <= k

\* FEASIBLE with any solution, OPTIMAL with one that minimises the objective
SuccessStatuses(s, best, m) ==
    {"FEASIBLE"} \cup (IF Objective(s[1], s[2], m) = best THEN {"OPTIMAL"} ELSE {})


(***************************************************************************)
(* TimetableSolver.generate_conflict_report: the list of reports built.    *)
(***************************************************************************)
Report(severity, kind, about, required, available) ==
    [severity |-> severity, kind |-> kind, about |-> about,
     required |-> required, available |-> available]

\* lists[1] \o ... \o lists[n]: the appends of one loop, in loop order
RECURSIVE Concat(_)
Concat(lists) ==
    IF DOMAIN lists = {} THEN <<>>
    ELSE Concat([i \in 1..(Len(lists) - 1) |-> lists[i]]) \o lists[Len(lists)]

\* sum(alloc.subject.weekly_periods for alloc in self.allocations
\*     if alloc.<field> == id)
RECURSIVE SumPeriods(_, _, _)
SumPeriods(field, id, n) ==
    IF n = 0 THEN 0
    ELSE SumPeriods(field, id, n - 1)
         + (IF allocations[n][field] = id
            THEN ById(subjects, allocations[n].subject).weekly_periods ELSE 0)

status_reports(st) ==
    (IF st = "UNKNOWN" THEN <<Report("warning", "status_unknown", 0, 0, 0)>> ELSE <<>>)
    \o (IF st = "INFEASIBLE" THEN <<Report("error", "status_infeasible", 0, 0, 0)>> ELSE <<>>)

\* allocs with zero candidate vars
candidate_reports(vs) ==
    LET one(i) == IF Cardinality(OfAllocation(vs, allocations[i])) = 0
                  THEN <<Report("error", "no_candidates", allocations[i].id, 0, 0)>>
                  ELSE <<>>
    IN  Concat([i \in 1..Len(allocations) |-> one(i)])

\* room shortages per subject type
room_reports ==
    LET one(i) == IF subjects[i].requires_room_type # ""
                     /\ Cardinality(rooms_by_type(subjects[i].requires_room_type)) = 0
                  THEN <<Report("error", "no_rooms_of_type", subjects[i].id, 0, 0)>>
                  ELSE <<>>
    IN  Concat([i \in 1..Len(subjects) |-> one(i)])

\* the teacher check firing already when required equals available
teacher_reports_when_full ==
    LET available_slots(t) ==
            Cardinality({ts \in timeslots : teacher_is_available(t.id, ts)})
        required_periods(t) == SumPeriods("teacher", t.id, Len(allocations))
    IN  Concat([i \in 1..Len(teachers) |->
                  IF required_periods(teachers[i]) >= available_slots(teachers[i])
                  THEN <<Report("error", "teacher_overallocated", teachers[i].id,
                                required_periods(teachers[i]),
                                available_slots(teachers[i]))>>
                  ELSE <<>>])

\* teacher availability overloads
teacher_reports ==
    LET available_slots(t) ==
            Cardinality({ts \in timeslots : teacher_is_available(t.id, ts)})
        required_periods(t) == SumPeriods("teacher", t.id, Len(allocations))
        one(i) == IF required_periods(teachers[i]) > available_slots(teachers[i])
                  THEN <<Report("error", "teacher_overallocated", teachers[i].id,
                                required_periods(teachers[i]),
                                available_slots(teachers[i]))>>
                  ELSE <<>>
    IN  Concat([i \in 1..Len(teachers) |-> one(i)])

\* class overloads
class_reports ==
    LET total_timeslots == Cardinality(timeslots)
        required_for_class(c) ==
            SumPeriods("classgroup", c.id, Len(allocations))
        one(i) == IF required_for_class(classes[i]) > total_timeslots
                  THEN <<Report("error", "class_overload", classes[i].id,
                                required_for_class(classes[i]), total_timeslots)>>
                  ELSE <<>>
    IN  Concat([i \in 1..Len(classes) |-> one(i)])

\* the generic report appended whatever the checks have found
generic_report_always(found, st) ==
    IF st \notin {"OPTIMAL", "FEASIBLE"}
    THEN <<Report(IF st = "UNKNOWN" THEN "warning" ELSE "error", "generic", 0, 0, 0)>>
    ELSE <<>>

generic_report(found, st) ==
    IF found = <<>> /\ st \notin {"OPTIMAL", "FEASIBLE"}
    THEN <<Report(IF st = "UNKNOWN" THEN "warning" ELSE "error", "generic", 0, 0, 0)>>
    ELSE <<>>

generate_conflict_report(st, vs) ==
    LET found == status_reports(st) \o candidate_reports(vs) \o room_reports
                    \o teacher_reports \o class_reports
    IN  found \o generic_report(found, st)

(***************************************************************************)
(* The repositories a behaviour starts from: rows the admin site can       *)
(* create.  Room, teacher, class, subject and allocation rows do not       *)
(* change during a behaviour.                                              *)
(***************************************************************************)
AlwaysAvailable == <<>>

\* {"0": {"1": false}, "1": {"1": false}}: no second period on either day
NoSecondPeriod ==
    <<<<StrKey("0"), JDict(<<<<StrKey("1"), JBool(FALSE)>>>>)>>,
      <<StrKey("1"), JDict(<<<<StrKey("1"), JBool(FALSE)>>>>)>>>>

\* {0: {1: False}} with int keys, as set in memory: day 0, period 1
NotDay0Period1 == <<<<IntKey(0), JDict(<<<<IntKey(1), JBool(FALSE)>>>>)>>>>

\* {"1": {"0": false}}: day 1, period 0
NotDay1Period0 == <<<<StrKey("1"), JDict(<<<<StrKey("0"), JBool(FALSE)>>>>)>>>>

\* documents as loaded from the JSON column: their keys are str
TeacherAvailabilities == {AlwaysAvailable, NoSecondPeriod}
RoomAvailabilities == {AlwaysAvailable, NotDay1Period0}

SchoolSettingsRow(days, before, after) ==
    [pk |-> 1, days_per_week |-> days, lesson_start_time |-> 480,
     lesson_duration_min |-> 45, periods_before_break |-> before,
     break_duration_min |-> 15, periods_after_break |-> after,
     lunch_duration_min |-> 45]

\* two days of two periods
GridSettings == SchoolSettingsRow(2, 1, 1)
\* no period before or after the break: no slot at all
EmptySettings == SchoolSettingsRow(1, 0, 0)

GridSlots == WithIds(NewTimeslots(GridSettings.days_per_week, GridSettings), 1)

TeacherRows(avail) ==
    <<[id |-> 1, name |-> "Ada", max_periods_week |-> 2, availability |-> avail],
      [id |-> 2, name |-> "Bob", max_periods_week |-> 25,
       availability |-> AlwaysAvailable]>>

ClassRows ==
    <<[id |-> 1, name |-> "10A", student_count |-> 30],
      [id |-> 2, name |-> "10B", student_count |-> 20]>>

SubjectRows(periods, room_type, consecutive) ==
    <<[id |-> 1, name |-> "Chemistry", weekly_periods |-> periods,
       difficulty |-> "difficult", requires_room_type |-> room_type,
       requires_consecutive_periods |-> consecutive],
      [id |-> 2, name |-> "Drama", weekly_periods |-> 1, difficulty |-> "fair",
       requires_room_type |-> "classroom", requires_consecutive_periods |-> FALSE]>>

\* Room.Meta.ordering is name: "Annex" (id 2) comes before "Main" (id 1)
MainRoom(avail) ==
    [id |-> 1, name |-> "Main", room_type |-> "classroom", capacity |-> 40,
     availability |-> avail]
Annex(room_type) ==
    [id |-> 2, name |-> "Annex", room_type |-> room_type, capacity |-> 20,
     availability |-> AlwaysAvailable]

RoomTables(avail) ==
    {<<>>, <<MainRoom(avail)>>, <<Annex("lab"), MainRoom(avail)>>,
     <<Annex("classroom"), MainRoom(avail)>>}

Allocation(id, classgroup, subject, teacher) ==
    [id |-> id, classgroup |-> classgroup, subject |-> subject, teacher |-> teacher]

AllocationTables ==
    {<<>>,
     <<Allocation(1, 1, 1, 1)>>,
     <<Allocation(1, 1, 1, 1), Allocation(2, 2, 2, 1)>>,
     <<Allocation(1, 1, 1, 1), Allocation(3, 1, 2, 2)>>}

Entry(id, teacher, classgroup, subject, room, timeslot, is_locked) ==
    [id |-> id, teacher |-> teacher, classgroup |-> classgroup, subject |-> subject,
     room |-> room, timeslot |-> timeslot, is_locked |-> is_locked]

\* a lesson locked in the admin site, and one left by an earlier solve
LockedEntry == Entry(1, 1, 1, 1, 1, 1, TRUE)
StaleEntry == Entry(2, 2, 2, 2, 1, 4, FALSE)

\* every foreign key of the rows refers to a row that exists
ForeignKeysHold(es) ==
    \A e \in es :
        /\ e.timeslot \in {ts.id : ts \in timeslots}
        /\ e.room \in {r.id : r \in Range(rooms)}
        /\ e.teacher \in {t.id : t \in Range(teachers)}
        /\ e.classgroup \in {c.id : c \in Range(classes)}
        /\ e.subject \in {x.id : x \in Range(subjects)}

\* no update_entry request has been handled
NoEdit == [entry_id |-> 0, timeslot_id |-> 0, room_id |-> 0, http_status |-> 0,
           success |-> FALSE, errors |-> <<>>]

NoSolution == [is_none |-> TRUE, items |-> <<>>]

\* the two update_entry requests that are in progress together
Requests == {"first", "second"}

\* a request that has not arrived
NoRequest == [pc |-> "none", entry |-> <<>>, response |-> NoEdit]

NoRequests == [r \in Requests |-> NoRequest]

\* no request is being handled
Idle ==
    /\ pc = "idle"
    /\ variables = {}
    /\ model = NoModel
    /\ status = "NONE"
    /\ solution = NoSolution
    /\ auxiliary = NoValues
    /\ txEntries = {}

InitRepository ==
    /\ \E choice \in {<<{}, {}>>, <<{GridSettings}, {}>>, <<{EmptySettings}, {}>>,
                      <<{GridSettings}, GridSlots>>} :
          /\ settings = choice[1]
          /\ timeslots = choice[2]
    /\ nextSlotId = Cardinality(timeslots) + 1
    /\ \E avail \in RoomAvailabilities : rooms \in RoomTables(avail)
    /\ \E avail \in TeacherAvailabilities : teachers = TeacherRows(avail)
    /\ classes = ClassRows
    /\ \E periods \in 1..2, room_type \in {"classroom", "lab"}, consecutive \in BOOLEAN :
          \* a block of one period is no block: the flag is taken as unset
          /\ consecutive => periods > 1
          /\ subjects = SubjectRows(periods, room_type, consecutive)
    /\ allocations \in AllocationTables
    /\ entries \in SUBSET {LockedEntry, StaleEntry}
    /\ ForeignKeysHold(entries)
    /\ nextEntryId = 3
    /\ reports = <<>>

Init ==
    /\ InitRepository
    /\ Idle
    /\ outcome = "none"
    /\ solves = 0
    /\ entriesAtStart = entries
    /\ reporterRuns = 0
    /\ lastEdit = NoEdit
    /\ requests = NoRequests

(***************************************************************************)
(* The order in which create_variables inserts the keys into the dict,     *)
(* which is the order of extract_solution's list and of the saved rows.    *)
(***************************************************************************)
IndexOf(table, id) == CHOOSE i \in DOMAIN table : table[i].id = id

AllocationIndex(k) ==
    CHOOSE i \in DOMAIN allocations :
        /\ allocations[i].classgroup = k[1]
        /\ allocations[i].subject = k[2]
        /\ allocations[i].teacher = k[3]

\* allocation, period_num, timeslot by (day_index, period_index), room
CreationRank(k) ==
    <<AllocationIndex(k), k[6], SlotById(k[5]).day_index,
      SlotById(k[5]).period_index, IndexOf(rooms, k[4])>>

RECURSIVE LexLess(_, _)
LexLess(a, b) ==
    /\ a # <<>>
    /\ \/ Head(a) < Head(b)
       \/ Head(a) = Head(b) /\ LexLess(Tail(a), Tail(b))

RECURSIVE InCreationOrder(_)
InCreationOrder(keys) ==
    IF keys = {} THEN <<>>
    ELSE LET first == CHOOSE k \in keys :
                         \A other \in keys \ {k} : LexLess(CreationRank(k), CreationRank(other))
         IN  <<first>> \o InCreationOrder(keys \ {first})

(***************************************************************************)
(* generate_timetable (POST)                                               *)
(***************************************************************************)
solverVars == <<variables, model, status, solution, auxiliary>>
staticVars == <<rooms, teachers, classes, subjects, allocations>>

\* the request returns a redirect; its TimetableSolver is dropped
Respond(target) ==
    /\ pc' = "idle"
    /\ outcome' = target
    /\ variables' = {}
    /\ model' = NoModel
    /\ status' = "NONE"
    /\ solution' = NoSolution
    /\ auxiliary' = NoValues
    /\ txEntries' = {}

\* a cascade that spares the locked rows
AfterSlotDeleteKeepingLocked(es, deleted) ==
    {e \in es : e.is_locked \/ e.timeslot \notin {ts.id : ts \in deleted}}

\* on_delete=CASCADE from the TimeSlot rows that are deleted
AfterSlotDelete(es, deleted) == {e \in es : e.timeslot \notin {ts.id : ts \in deleted}}

\* "if not TimeSlot.objects.exists(): generate_timeslots()"
StartGenerate ==
    /\ pc = "idle"
    /\ solves < MaxSolves
    /\ solves' = solves + 1
    /\ entriesAtStart' = entries
    /\ reporterRuns' = 0
    /\ IF timeslots # {}
       THEN /\ pc' = "load_data"
            /\ UNCHANGED <<timeslots, nextSlotId, entries, outcome, solverVars, txEntries>>
       ELSE IF settings = {}
       THEN \* generate_timeslots raises ValueError; the view catches it
            /\ Respond("dashboard")
            /\ UNCHANGED <<timeslots, nextSlotId, entries>>
       ELSE LET first == CHOOSE row \in settings : \A other \in settings : row.pk <= other.pk
                rows == NewTimeslots(first.days_per_week, first)
            IN  /\ timeslots' = WithIds(rows, nextSlotId)
                /\ nextSlotId' = nextSlotId + Len(rows)
                /\ entries' = AfterSlotDelete(entries, timeslots)
                /\ pc' = "load_data"
                /\ UNCHANGED <<outcome, solverVars, txEntries>>
    /\ UNCHANGED <<settings, staticVars, nextEntryId, reports, lastEdit, requests>>

\* load_data without the check for rooms
MissingDataIgnoringRooms == timeslots = {} \/ allocations = <<>>

\* the three checks that make load_data raise ValueError
MissingData == timeslots = {} \/ allocations = <<>> \/ rooms = <<>>

LoadData ==
    /\ pc = "load_data"
    /\ IF MissingData
       THEN Respond("dashboard")
       ELSE /\ pc' = "create_variables"
            /\ UNCHANGED <<outcome, solverVars, txEntries>>
    /\ UNCHANGED <<lastEdit, requests, settings, timeslots, nextSlotId, staticVars, entries, nextEntryId,
                   reports, solves, entriesAtStart, reporterRuns>>

CreateVariables ==
    /\ pc = "create_variables"
    /\ variables' = create_variables
    /\ pc' = "add_constraints"
    /\ UNCHANGED <<lastEdit, requests, settings, timeslots, nextSlotId, staticVars, entries, nextEntryId,
                   reports, model, status, solution, auxiliary, txEntries, outcome,
                   solves,
                   entriesAtStart, reporterRuns>>

\* add_hard_constraints, then add_soft_constraints
AddConstraints ==
    /\ pc = "add_constraints"
    /\ model' = add_hard_constraints(variables) @@ add_soft_constraints(variables)
    /\ pc' = "solve"
    /\ UNCHANGED <<lastEdit, requests, settings, timeslots, nextSlotId, staticVars, entries, nextEntryId,
                   reports, variables, status, solution, auxiliary, txEntries, outcome,
                   solves,
                   entriesAtStart, reporterRuns>>

\* a reporter that inserts its reports without deleting the prior rows
AppendReports(st) ==
    /\ reports' = reports \o generate_conflict_report(st, variables)
    /\ reporterRuns' = reporterRuns + 1

\* ConflictReport.objects.all().delete(), then bulk_create(reports)
ReplaceReports(st) ==
    /\ reports' = generate_conflict_report(st, variables)
    /\ reporterRuns' = reporterRuns + 1

\* solve(): FEASIBLE with an assignment that satisfies the model, OPTIMAL
\* with one that also minimises the objective
SolveFound ==
    /\ pc = "solve"
    /\ \E full \in {FullSolutions(variables, model)} :
          /\ full # {}
          /\ \E best \in {MinObjective(full, model)}, s \in full :
                /\ status' \in SuccessStatuses(s, best, model)
                /\ solution' = [is_none |-> FALSE,
                                items |-> InCreationOrder(extract_solution(s[1], variables))]
                /\ auxiliary' = s[2]
    /\ pc' = "solved"
    /\ UNCHANGED <<lastEdit, requests, settings, timeslots, nextSlotId, staticVars, entries, nextEntryId,
                   reports, variables, model, txEntries, outcome, solves,
                   entriesAtStart, reporterRuns>>

\* the statuses CpSolver.Solve can end with when it returns no assignment
FailureStatuses ==
    {"UNKNOWN", "MODEL_INVALID"}
        \cup (IF Solutions(variables, model) = {} THEN {"INFEASIBLE"} ELSE {})

\* solve() returning (status, None) without calling the reporter
SolveFailedWithoutReport ==
    /\ pc = "solve"
    /\ \E st \in FailureStatuses : status' = st
    /\ solution' = NoSolution
    /\ auxiliary' = NoValues
    /\ pc' = "solved"
    /\ UNCHANGED <<lastEdit, requests, settings, timeslots, nextSlotId, staticVars, entries, nextEntryId,
                   reports, reporterRuns, variables, model, txEntries, outcome, solves,
                   entriesAtStart>>

\* solve(): any other status; the else branch reports and returns (status, None)
SolveFailed ==
    /\ pc = "solve"
    /\ \E st \in FailureStatuses :
          /\ status' = st
          /\ ReplaceReports(st)
    /\ solution' = NoSolution
    /\ auxiliary' = NoValues
    /\ pc' = "solved"
    /\ UNCHANGED <<lastEdit, requests, settings, timeslots, nextSlotId, staticVars, entries, nextEntryId,
                   variables, model, txEntries, outcome, solves, entriesAtStart>>

Succeeded == status \in {"OPTIMAL", "FEASIBLE"}

\* the rows save_solution builds from the solution list
NewEntries(items, firstId) ==
    {Entry(firstId + i - 1, items[i][3], items[i][1], items[i][2], items[i][4],
           items[i][5], FALSE) : i \in 1..Len(items)}

\* a delete without the is_locked filter
AfterDeleteAll(es) == {}

\* TimetableEntry.objects.filter(is_locked=False).delete()
AfterDelete(es) == {e \in es : e.is_locked}

\* without the atomic block every write is committed at once
Autocommit(before, inside) == inside

\* "with transaction.atomic()": until the block exits, the committed table
\* is the one from before it, whatever was written inside
DuringAtomic(before, inside) == before

\* save_solution enters the atomic block and deletes the non-locked rows
SaveDelete ==
    /\ pc = "solved"
    /\ Succeeded
    /\ txEntries' = AfterDelete(entries)
    /\ entries' = DuringAtomic(entries, AfterDelete(entries))
    /\ pc' = "in_transaction"
    /\ UNCHANGED <<lastEdit, requests, settings, timeslots, nextSlotId, staticVars, nextEntryId,
                   reports, solverVars, outcome, solves, entriesAtStart, reporterRuns>>

\* bulk_create succeeds and the transaction commits
SaveCommit ==
    /\ pc = "in_transaction"
    /\ entries' = txEntries \cup NewEntries(solution.items, nextEntryId)
    /\ nextEntryId' = nextEntryId + Len(solution.items)
    /\ Respond("master_timetable")
    /\ UNCHANGED <<lastEdit, requests, settings, timeslots, nextSlotId, staticVars, reports, solves,
                   entriesAtStart, reporterRuns>>

\* bulk_create raises: the transaction rolls back to the committed table and
\* the view catches the error
SaveAbort ==
    /\ pc = "in_transaction"
    /\ Respond("dashboard")
    /\ UNCHANGED <<lastEdit, requests, settings, timeslots, nextSlotId, staticVars, entries, nextEntryId,
                   reports, solves, entriesAtStart, reporterRuns>>

\* the view's else branch: generate_conflict_report(status) once more
ViewReport ==
    /\ pc = "solved"
    /\ ~Succeeded
    /\ ReplaceReports(status)
    /\ Respond("conflict_report")
    /\ UNCHANGED <<lastEdit, requests, settings, timeslots, nextSlotId, staticVars, entries, nextEntryId,
                   solves, entriesAtStart>>

\* the reporter called by solve() raises after ConflictReport.objects.all()
\* .delete() has committed (autocommit, no transaction) and before
\* bulk_create; the exception leaves solve() and is caught by the view
SolveReportAbort ==
    /\ pc = "solve"
    /\ reports' = <<>>
    /\ Respond("dashboard")
    /\ UNCHANGED <<lastEdit, requests, settings, timeslots, nextSlotId, staticVars, entries, nextEntryId,
                   solves, entriesAtStart, reporterRuns>>

\* the same failure in the reporter call of the view's else branch
ViewReportAbort ==
    /\ pc = "solved"
    /\ ~Succeeded
    /\ reports' = <<>>
    /\ Respond("dashboard")
    /\ UNCHANGED <<lastEdit, requests, settings, timeslots, nextSlotId, staticVars, entries, nextEntryId,
                   solves, entriesAtStart, reporterRuns>>

Next ==
    \/ StartGenerate
    \/ LoadData
    \/ CreateVariables
    \/ AddConstraints
    \/ SolveFound
    \/ SolveFailed
    \/ SaveDelete
    \/ SaveCommit
    \/ SaveAbort
    \/ ViewReport
    \/ SolveReportAbort
    \/ ViewReportAbort

Spec == Init /\ [][Next]_vars

(***************************************************************************)
(* Predicates on the TimetableEntry table.                                  *)
(***************************************************************************)
\* the last request was a generate that saved a solution
GenerateSucceeded == pc = "idle" /\ outcome = "master_timetable"

SameSlot(e1, e2) == e1.id # e2.id /\ e1.timeslot = e2.timeslot

NoDoubleBooking(es) ==
    \A e1, e2 \in es :
        SameSlot(e1, e2) =>
            /\ e1.teacher # e2.teacher
            /\ e1.classgroup # e2.classgroup
            /\ e1.room # e2.room

EntriesOf(es, a) ==
    {e \in es : e.classgroup = a.classgroup /\ e.subject = a.subject
                   /\ e.teacher = a.teacher}

\* enumeration produced at least one candidate for each period index
HasCandidatesPerPeriod(a) ==
    \A period_num \in 0..(ById(subjects, a.subject).weekly_periods - 1) :
        \E k \in AllocationVariables(a) : k[6] = period_num

(***************************************************************************)
(* update_entry (POST): one request with the ids of its JSON body; a       *)
(* room_id that is absent or 0 keeps the entry's room.                     *)
(***************************************************************************)
Response(entry_id, timeslot_id, room_id, http_status, errors) ==
    [entry_id |-> entry_id, timeslot_id |-> timeslot_id, room_id |-> room_id,
     http_status |-> http_status, success |-> http_status = 200, errors |-> errors]

\* the three objects.get(...) find their rows
RowsExist(entry_id, timeslot_id, room_id) ==
    /\ \E e \in entries : e.id = entry_id
    /\ \E ts \in timeslots : ts.id = timeslot_id
    /\ room_id # 0 => \E r \in Range(rooms) : r.id = room_id

\* a look-up that finds no row
OtherAtNever(entry_id, timeslot_id, field, value) == FALSE

\* another row that filter(...).exclude(id=entry_id) finds at the new slot
OtherAt(entry_id, timeslot_id, field, value) ==
    \E o \in entries : o[field] = value /\ o.timeslot = timeslot_id /\ o.id # entry_id

\* a validation that runs the availability and room checks only
ViolationsWithoutDoubleBooking(entry, new_timeslot, new_room) ==
    (IF ~teacher_is_available(entry.teacher, new_timeslot)
     THEN <<"teacher_unavailable">> ELSE <<>>)
    \o (IF ~room_is_available(new_room, new_timeslot)
        THEN <<"room_unavailable">> ELSE <<>>)
    \o (IF new_room.capacity < ById(classes, entry.classgroup).student_count
        THEN <<"room_too_small">> ELSE <<>>)
    \o (IF new_room.room_type # ById(subjects, entry.subject).requires_room_type
        THEN <<"room_type_mismatch">> ELSE <<>>)

\* the errors list of the validation, in the order of the checks
Violations(entry, new_timeslot, new_room) ==
    (IF ~teacher_is_available(entry.teacher, new_timeslot)
     THEN <<"teacher_unavailable">> ELSE <<>>)
    \o (IF ~room_is_available(new_room, new_timeslot)
        THEN <<"room_unavailable">> ELSE <<>>)
    \o (IF OtherAt(entry.id, new_timeslot.id, "teacher", entry.teacher)
        THEN <<"teacher_double_booking">> ELSE <<>>)
    \o (IF OtherAt(entry.id, new_timeslot.id, "classgroup", entry.classgroup)
        THEN <<"class_double_booking">> ELSE <<>>)
    \o (IF OtherAt(entry.id, new_timeslot.id, "room", new_room.id)
        THEN <<"room_double_booking">> ELSE <<>>)
    \o (IF new_room.capacity < ById(classes, entry.classgroup).student_count
        THEN <<"room_too_small">> ELSE <<>>)
    \o (IF new_room.room_type # ById(subjects, entry.subject).requires_room_type
        THEN <<"room_type_mismatch">> ELSE <<>>)

\* a write that also clears the lock of the row
MovedAndUnlocked(entry, new_timeslot, new_room) ==
    [entry EXCEPT !.timeslot = new_timeslot.id, !.room = new_room.id, !.is_locked = FALSE]

\* entry.timeslot = new_timeslot; entry.room = new_room
Moved(entry, new_timeslot, new_room) ==
    [entry EXCEPT !.timeslot = new_timeslot.id, !.room = new_room.id]

UpdateEntry(entry_id, timeslot_id, room_id) ==
    /\ pc = "idle"
    /\ IF ~RowsExist(entry_id, timeslot_id, room_id)
       THEN \* DoesNotExist is caught by the view: status 500
            /\ lastEdit' = Response(entry_id, timeslot_id, room_id, 500, <<>>)
            /\ UNCHANGED entries
       ELSE LET entry == CHOOSE e \in entries : e.id = entry_id
                new_timeslot == SlotById(timeslot_id)
                new_room == IF room_id # 0 THEN ById(rooms, room_id)
                            ELSE ById(rooms, entry.room)
                errors == Violations(entry, new_timeslot, new_room)
            IN  IF errors # <<>>
                THEN /\ lastEdit' = Response(entry_id, timeslot_id, room_id, 400, errors)
                     /\ UNCHANGED entries
                ELSE /\ entries' = (entries \ {entry})
                           \cup {Moved(entry, new_timeslot, new_room)}
                     /\ lastEdit' = Response(entry_id, timeslot_id, room_id, 200, <<>>)
    /\ UNCHANGED <<settings, timeslots, nextSlotId, staticVars, nextEntryId, reports,
                   pc, solverVars, txEntries, outcome, solves, entriesAtStart,
                   reporterRuns, requests>>

\* the ids a request can carry: those of the rows, and one of no row
EntryIds == {e.id : e \in entries} \cup {0}
SlotIds == {ts.id : ts \in timeslots} \cup {0}
RoomIds == {r.id : r \in Range(rooms)} \cup {0, 99}

NextEdit ==
    \E entry_id \in EntryIds, timeslot_id \in SlotIds, room_id \in RoomIds :
        UpdateEntry(entry_id, timeslot_id, room_id)

(***************************************************************************)
(* A timetable that a generate request has saved, next to a locked row or  *)
(* not.                                                                    *)
(***************************************************************************)
InitSaved ==
    /\ settings = {GridSettings}
    /\ timeslots = GridSlots
    /\ nextSlotId = Cardinality(timeslots) + 1
    /\ rooms = <<Annex("classroom"), MainRoom(NotDay1Period0)>>
    /\ teachers = TeacherRows(NotDay0Period1)
    /\ classes = ClassRows
    /\ \E periods \in 1..2, room_type \in {"classroom", "lab"} :
          subjects = SubjectRows(periods, room_type, FALSE)
    /\ allocations \in AllocationTables \ {<<>>}
    /\ \E locked \in SUBSET {LockedEntry},
          x \in Solutions(create_variables, add_hard_constraints(create_variables)) :
          /\ entries = locked \cup NewEntries(InCreationOrder(x), 3)
          /\ nextEntryId = 3 + Cardinality(x)
    /\ reports = <<>>
    /\ Idle
    /\ outcome = "master_timetable"
    /\ solves = 1
    /\ entriesAtStart = entries
    /\ reporterRuns = 0
    /\ lastEdit = NoEdit
    /\ requests = NoRequests

\* the edits start from a saved timetable in which nothing is double-booked
InitEdit == InitSaved /\ NoDoubleBooking(entries)

SpecEdit == InitEdit /\ [][NextEdit]_vars

\* the edits start from any timetable that generate has saved
SpecMove == InitSaved /\ [][NextEdit]_vars

(***************************************************************************)
(* SchoolSettings.save() and generate_timeslots() called on their own,     *)
(* one call after the other.                                               *)
(***************************************************************************)
MaxSlotId == 12

\* SchoolSettings.objects.first(): no Meta.ordering, so the lowest pk
FirstSettings == CHOOSE row \in settings : \A other \in settings : row.pk <= other.pk

\* the field values an instance is saved with; pk 0 stands for pk None
SettingsValues ==
    {[SchoolSettingsRow(days, before, after) EXCEPT !.pk = 0, !.lesson_start_time = start] :
        days \in 1..2, before \in 0..2, after \in 0..1, start \in {480, 1380}}

\* a new instance, or an instance of a row of the table
SettingsInstances ==
    {[values EXCEPT !.pk = pk] :
        values \in SettingsValues, pk \in {0} \cup {row.pk : row \in settings}}

\* a save() that leaves self.pk as it was given
PkAsGiven(instance) == instance.pk

\* "if not self.pk and SchoolSettings.objects.exists():
\*      self.pk = SchoolSettings.objects.first().pk"
PkToSave(instance) ==
    IF instance.pk = 0 /\ settings # {} THEN FirstSettings.pk ELSE instance.pk

\* the AutoField value of an inserted row; no row is deleted in between
NextSettingsPk ==
    IF settings = {} THEN 1
    ELSE 1 + (CHOOSE pk \in {row.pk : row \in settings} :
                 \A row \in settings : row.pk <= pk)

\* super().save(): UPDATE the row with this pk, INSERT when there is none
SaveSettings(instance) ==
    /\ pc = "idle"
    /\ LET pk == PkToSave(instance)
       IN  IF pk # 0 /\ \E row \in settings : row.pk = pk
           THEN settings' = {row \in settings : row.pk # pk}
                                \cup {[instance EXCEPT !.pk = pk]}
           ELSE settings' = settings
                                \cup {[instance EXCEPT !.pk = IF pk # 0 THEN pk
                                                              ELSE NextSettingsPk]}
    /\ outcome' = IF instance.pk # 0 THEN "settings_updated"
                  ELSE IF settings # {} THEN "settings_overwritten"
                  ELSE "settings_created"
    /\ UNCHANGED <<timeslots, nextSlotId, staticVars, entries, nextEntryId, reports, pc,
                   solverVars, txEntries, solves, entriesAtStart, reporterRuns, lastEdit,
                   requests>>

\* generate_timeslots(): raises without settings, else deletes every TimeSlot
\* row (and by cascade its entries) and inserts the new rows
GenerateTimeslots ==
    /\ pc = "idle"
    /\ nextSlotId <= MaxSlotId
    /\ IF settings = {}
       THEN /\ outcome' = "ValueError"
            /\ UNCHANGED <<timeslots, nextSlotId, entries>>
       ELSE LET rows == NewTimeslots(FirstSettings.days_per_week, FirstSettings)
            IN  /\ timeslots' = WithIds(rows, nextSlotId)
                /\ nextSlotId' = nextSlotId + Len(rows)
                /\ entries' = AfterSlotDelete(entries, timeslots)
                /\ outcome' = "timeslots_generated"
    /\ UNCHANGED <<settings, staticVars, nextEntryId, reports, pc, solverVars, txEntries,
                   solves, entriesAtStart, reporterRuns, lastEdit, requests>>

InitSettings ==
    /\ \E choice \in {<<{}, {}>>, <<{GridSettings}, {}>>, <<{GridSettings}, GridSlots>>} :
          /\ settings = choice[1]
          /\ timeslots = choice[2]
    /\ nextSlotId = Cardinality(timeslots) + 1
    /\ rooms = <<MainRoom(AlwaysAvailable)>>
    /\ teachers = TeacherRows(AlwaysAvailable)
    /\ classes = ClassRows
    /\ subjects = SubjectRows(1, "classroom", FALSE)
    /\ allocations = <<Allocation(1, 1, 1, 1)>>
    /\ entries \in SUBSET {LockedEntry, StaleEntry}
    /\ ForeignKeysHold(entries)
    /\ nextEntryId = 3
    /\ reports = <<>>
    /\ Idle
    /\ outcome = "none"
    /\ solves = 0
    /\ entriesAtStart = entries
    /\ reporterRuns = 0
    /\ lastEdit = NoEdit
    /\ requests = NoRequests

NextSettings ==
    \/ \E instance \in SettingsInstances : SaveSettings(instance)
    \/ GenerateTimeslots

SpecSettings == InitSettings /\ [][NextSettings]_vars

(***************************************************************************)
(* update_entry requests against availability documents of every shape:    *)
(* the day under an int or a str key or missing, its value a dict or not,  *)
(* the period under an int or a str key or missing, its value a JSON       *)
(* boolean, null, number or string.                                        *)
(***************************************************************************)
PeriodValues == {JBool(TRUE), JBool(FALSE), JNull, JInt(0), JInt(1), JStr(0), JStr(1)}

AvailabilityKeys == {IntKey(0), StrKey("0"), StrKey("1")}

DayValues ==
    {JDict(<<<<key, pv>>>>) : key \in AvailabilityKeys, pv \in PeriodValues}
        \cup {JDict(<<>>), JOther(JBool(FALSE)), JOther(JNull)}

AvailabilityDocuments ==
    {<<<<key, day>>>> : key \in AvailabilityKeys, day \in DayValues} \cup {<<>>}

InitAvailability ==
    /\ settings = {GridSettings}
    /\ timeslots = GridSlots
    /\ nextSlotId = Cardinality(timeslots) + 1
    /\ \E doc \in AvailabilityDocuments :
          \/ teachers = TeacherRows(doc) /\ rooms = <<MainRoom(AlwaysAvailable)>>
          \/ teachers = TeacherRows(AlwaysAvailable) /\ rooms = <<MainRoom(doc)>>
    /\ classes = ClassRows
    /\ subjects = SubjectRows(1, "classroom", FALSE)
    /\ allocations = <<Allocation(1, 1, 1, 1)>>
    /\ entries = {LockedEntry}
    /\ nextEntryId = 3
    /\ reports = <<>>
    /\ Idle
    /\ outcome = "none"
    /\ solves = 0
    /\ entriesAtStart = entries
    /\ reporterRuns = 0
    /\ lastEdit = NoEdit
    /\ requests = NoRequests

SpecAvailability == InitAvailability /\ [][NextEdit]_vars

(***************************************************************************)
(* Properties of the generate request.                                     *)
(***************************************************************************)
\* C1: after a successful generate no two persisted entries, locked rows
\* included, share (teacher, timeslot), (class, timeslot) or (room, timeslot).
C1_NoDoubleBookingAfterGenerate == GenerateSucceeded => NoDoubleBooking(entries)

\* C2: after a successful generate every allocation with a candidate for each
\* period index has exactly weekly_periods persisted entries, locked rows
\* included.
C2_WeeklyPeriodsScheduled ==
    GenerateSucceeded =>
        \A i \in DOMAIN allocations :
            HasCandidatesPerPeriod(allocations[i]) =>
                Cardinality(EntriesOf(entries, allocations[i]))
                    = ById(subjects, allocations[i].subject).weekly_periods

\* the entries are on one day, in one room, at k contiguous period indices
IsBlock(es, k) ==
    /\ Cardinality(es) = k
    /\ \E e0 \in es :
          /\ \A e \in es : e.room = e0.room
          /\ \A e \in es : SlotById(e.timeslot).day_index = SlotById(e0.timeslot).day_index
          /\ {SlotById(e.timeslot).period_index : e \in es}
                = SlotById(e0.timeslot).period_index
                    ..(SlotById(e0.timeslot).period_index + k - 1)

\* C3: after a successful generate the k entries of every allocation whose
\* subject requires consecutive periods (k >= 2) form a block: same day, same
\* room, contiguous period indices; also when the allocation has no valid
\* block start position.  Stated for tables without locked rows and for
\* allocations with candidates, which then have k entries.
C3_ConsecutiveBlocks ==
    (GenerateSucceeded /\ \A e \in entries : ~e.is_locked) =>
        \A i \in DOMAIN allocations :
            (NeedsBlock(allocations[i]) /\ HasCandidatesPerPeriod(allocations[i])) =>
                IsBlock(EntriesOf(entries, allocations[i]),
                        ById(subjects, allocations[i].subject).weekly_periods)

LockedRows(es) == {e \in es : e.is_locked}

\* C4: no step of a generate request, save_solution included, adds, removes
\* or changes a locked row, over any number of solves.
C4_LockedRowsPreserved == [][LockedRows(entries') = LockedRows(entries)]_vars

\* a second solve has replaced the non-locked rows next to a locked row
C4_Witness ==
    /\ GenerateSucceeded
    /\ solves >= 2
    /\ LockedRows(entries) # {}
    /\ entries # entriesAtStart
    /\ \E e \in entriesAtStart : ~e.is_locked

\* C5: after a successful generate the teacher and the room of every
\* non-locked entry are available at the entry's timeslot.
C5_EntriesRespectAvailability ==
    GenerateSucceeded =>
        \A e \in entries :
            ~e.is_locked =>
                /\ teacher_is_available(e.teacher, SlotById(e.timeslot))
                /\ room_is_available(ById(rooms, e.room), SlotById(e.timeslot))

\* a saved lesson of a teacher and in a room that each have an unavailable slot
C5_Witness ==
    /\ GenerateSucceeded
    /\ \E e \in entries :
          /\ ~e.is_locked
          /\ \E ts \in timeslots : ~teacher_is_available(e.teacher, ts)
          /\ \E ts \in timeslots : ~room_is_available(ById(rooms, e.room), ts)

\* C6: after a successful generate every non-locked entry's room is large
\* enough for the class, and has the subject's required type unless no room
\* of that type exists.
C6_EntriesRespectCapacityAndType ==
    GenerateSucceeded =>
        \A e \in entries :
            ~e.is_locked =>
                /\ ById(rooms, e.room).capacity >= ById(classes, e.classgroup).student_count
                /\ \/ ById(rooms, e.room).room_type
                        = ById(subjects, e.subject).requires_room_type
                   \/ \A r \in Range(rooms) :
                        r.room_type # ById(subjects, e.subject).requires_room_type

\* a lesson saved in a fallback room while another room is too small for it
C6_Witness ==
    /\ GenerateSucceeded
    /\ \E e \in entries :
          /\ ~e.is_locked
          /\ ById(rooms, e.room).room_type # ById(subjects, e.subject).requires_room_type
          /\ \E r \in Range(rooms) :
                r.capacity < ById(classes, e.classgroup).student_count

\* C7: save_solution is all-or-nothing: while its transaction is open, and
\* after it failed, the committed table is the one from before the call; the
\* table differs from it only once a save has committed.
C7_SaveIsAtomic ==
    /\ pc = "in_transaction" => entries = entriesAtStart
    /\ (pc = "idle" /\ outcome = "dashboard") => entries = entriesAtStart
    /\ entries # entriesAtStart => GenerateSucceeded

\* the insert failed after non-locked rows had been deleted in the transaction
C7_Witness ==
    /\ pc = "idle"
    /\ outcome = "dashboard"
    /\ timeslots # {} /\ allocations # <<>> /\ rooms # <<>>
    /\ \E e \in entries : ~e.is_locked

\* C8: when the solver ends with a status other than OPTIMAL and FEASIBLE,
\* solve returns (status, None) after the conflict reporter has run, and the
\* request leaves every TimetableEntry row unchanged.
C8_FailureReportsAndWritesNothing ==
    /\ (pc = "solved" /\ status \notin {"OPTIMAL", "FEASIBLE"}) =>
          /\ solution = NoSolution
          /\ reporterRuns >= 1
          /\ reports = generate_conflict_report(status, variables)
          /\ entries = entriesAtStart
    /\ (pc = "idle" /\ outcome = "conflict_report") => entries = entriesAtStart

\* solve has returned INFEASIBLE with locked and non-locked rows in the table
C8_Witness ==
    /\ pc = "solved"
    /\ status = "INFEASIBLE"
    /\ \E e \in entries : e.is_locked
    /\ \E e \in entries : ~e.is_locked

\* C9: with no timeslots, no allocations or no rooms at load time, load_data
\* raises: the request ends with no variable created, the solver not run and
\* no TimetableEntry or ConflictReport row written.
C9_MissingDataRaises ==
    [][(pc = "load_data" /\ (timeslots = {} \/ allocations = <<>> \/ rooms = <<>>)) =>
          /\ pc' = "idle"
          /\ outcome' = "dashboard"
          /\ variables' = {}
          /\ status' = "NONE"
          /\ entries' = entriesAtStart
          /\ reports' = reports]_vars

\* load_data has raised for a repository with slots and allocations, no rooms
C9_Witness ==
    /\ pc = "idle"
    /\ outcome = "dashboard"
    /\ solves > 0
    /\ timeslots # {}
    /\ allocations # <<>>
    /\ rooms = <<>>

(***************************************************************************)
(* Properties of the update_entry request.                                 *)
(***************************************************************************)
\* C10: starting from a timetable without double-booking, after any sequence
\* of sequentially executed update_entry requests, accepted or rejected, no
\* two entries share (teacher, timeslot), (class, timeslot) or
\* (room, timeslot).
C10_EditsKeepNoDoubleBooking == NoDoubleBooking(entries)

\* after an accepted move, a request was rejected for a double-booking
C10_Witness ==
    /\ entries # entriesAtStart
    /\ lastEdit.http_status = 400
    /\ \E i \in DOMAIN lastEdit.errors :
          lastEdit.errors[i] \in {"teacher_double_booking", "class_double_booking",
                                  "room_double_booking"}

\* the room a request for entry e asks for: room_id, or e's room when 0
RequestedRoom(e, room_id) == ById(rooms, IF room_id # 0 THEN room_id ELSE e.room)

\* the violations of moving entry e to timeslot ts and room r, as a set
ViolationKinds(e, ts, r) ==
    {kind \in {"teacher_unavailable", "room_unavailable", "teacher_double_booking",
               "class_double_booking", "room_double_booking", "room_too_small",
               "room_type_mismatch"} :
        \/ kind = "teacher_unavailable" /\ ~teacher_is_available(e.teacher, ts)
        \/ kind = "room_unavailable" /\ ~room_is_available(r, ts)
        \/ kind = "teacher_double_booking"
              /\ \E o \in entries : o.id # e.id /\ o.timeslot = ts.id /\ o.teacher = e.teacher
        \/ kind = "class_double_booking"
              /\ \E o \in entries : o.id # e.id /\ o.timeslot = ts.id
                                      /\ o.classgroup = e.classgroup
        \/ kind = "room_double_booking"
              /\ \E o \in entries : o.id # e.id /\ o.timeslot = ts.id /\ o.room = r.id
        \/ kind = "room_too_small"
              /\ r.capacity < ById(classes, e.classgroup).student_count
        \/ kind = "room_type_mismatch"
              /\ r.room_type # ById(subjects, e.subject).requires_room_type}

\* C11: a request whose move has at least one violation is answered with the
\* list of all its violations and writes nothing: every TimetableEntry row is
\* as before; a move to a slot where the entry's teacher has another entry is
\* answered with a teacher-double-booking error.
C11_RejectionWritesNothing ==
    [][\A e \in entries, ts \in timeslots :
          (/\ lastEdit'.entry_id = e.id
           /\ lastEdit'.timeslot_id = ts.id
           /\ lastEdit'.room_id \in {0} \cup {r.id : r \in Range(rooms)})
          => LET kinds == ViolationKinds(e, ts, RequestedRoom(e, lastEdit'.room_id))
             IN  kinds # {} =>
                    /\ entries' = entries
                    /\ ~lastEdit'.success
                    /\ Range(lastEdit'.errors) = kinds
                    /\ Len(lastEdit'.errors) = Cardinality(kinds)]_vars

\* a move to a slot where the teacher has another entry and the room is
\* unavailable was answered with both errors
C11_Witness ==
    /\ lastEdit.http_status = 400
    /\ Len(lastEdit.errors) >= 2
    /\ \E i \in DOMAIN lastEdit.errors : lastEdit.errors[i] = "teacher_double_booking"
    /\ \E i \in DOMAIN lastEdit.errors : lastEdit.errors[i] = "room_unavailable"

\* C12: for any entry of a successfully generated timetable and any move that
\* validation accepts, the move is executed (the entry is at the new slot and
\* room) and validating the reverse move, back to the original slot and room,
\* right afterwards is accepted too; entries in a fallback room included.
C12_AcceptedMoveIsReversible ==
    [][(entries = entriesAtStart /\ lastEdit'.success) =>
          \A e \in entries :
              e.id = lastEdit'.entry_id =>
                  \A m \in entries' :
                      m.id = e.id =>
                          /\ m.timeslot = lastEdit'.timeslot_id
                          /\ m.room = RequestedRoom(e, lastEdit'.room_id).id
                          /\ (Violations(m, SlotById(e.timeslot),
                                         ById(rooms, e.room)))' = <<>>]_vars

(***************************************************************************)
(* Properties of the conflict reporter.                                    *)
(***************************************************************************)
\* C13: when generate_conflict_report(status) completes, the persisted
\* ConflictReport rows are exactly the reports it built, whatever rows were
\* there before, without duplicates; the second run of the failure path (in
\* the view) leaves the rows of the first run (inside solve).
C13_ReporterReplacesRows ==
    [][reporterRuns' > reporterRuns =>
          LET st == IF pc = "solve" THEN status' ELSE status
          IN  /\ reports' = generate_conflict_report(st, variables)
              /\ \A i, j \in DOMAIN reports' : reports'[i] = reports'[j] => i = j
              /\ pc = "solved" => reports' = reports]_vars

\* the failure path of a second generate has run the reporter twice and left
\* several rows
C13_Witness ==
    /\ pc = "idle"
    /\ outcome = "conflict_report"
    /\ reporterRuns = 2
    /\ solves = 2
    /\ Len(reports) >= 2

\* the positions of the reports of one kind
OfKind(rs, kind) == {i \in DOMAIN rs : rs[i].kind = kind}

\* solve has returned a non-success status, the reporter has run
SolveHasFailed == pc = "solved" /\ ~Succeeded

\* C14: for every non-success status the reporter returns at least one
\* report; UNKNOWN yields exactly one status-level warning, INFEASIBLE exactly
\* one status-level error; the generic advice report is emitted exactly when
\* no status, zero-candidate, room-shortage, teacher-overallocation or
\* class-overload report was produced, as a warning for UNKNOWN and an error
\* otherwise.
C14_StatusAndGenericReports ==
    SolveHasFailed =>
        /\ reports # <<>>
        /\ Cardinality(OfKind(reports, "status_unknown"))
              = (IF status = "UNKNOWN" THEN 1 ELSE 0)
        /\ \A i \in OfKind(reports, "status_unknown") : reports[i].severity = "warning"
        /\ Cardinality(OfKind(reports, "status_infeasible"))
              = (IF status = "INFEASIBLE" THEN 1 ELSE 0)
        /\ \A i \in OfKind(reports, "status_infeasible") : reports[i].severity = "error"
        /\ Cardinality(OfKind(reports, "generic"))
              = (IF \A i \in DOMAIN reports : reports[i].kind = "generic" THEN 1 ELSE 0)
        /\ \A i \in OfKind(reports, "generic") :
              reports[i].severity = (IF status = "UNKNOWN" THEN "warning" ELSE "error")

\* MODEL_INVALID with no specific conflict: the generic error is the only row
C14_Witness ==
    /\ SolveHasFailed
    /\ status = "MODEL_INVALID"
    /\ Len(reports) = 1
    /\ reports[1].kind = "generic"
    /\ reports[1].severity = "error"

\* the sum of subject.weekly_periods over the allocations at the positions S
RECURSIVE WeeklyPeriodsOf(_)
WeeklyPeriodsOf(S) ==
    IF S = {} THEN 0
    ELSE LET i == CHOOSE i \in S : TRUE
         IN  ById(subjects, allocations[i].subject).weekly_periods
                + WeeklyPeriodsOf(S \ {i})

\* what teacher t has to teach, and the slots at which t is available
RequiredOfTeacher(t) ==
    WeeklyPeriodsOf({i \in DOMAIN allocations : allocations[i].teacher = t.id})
AvailableOfTeacher(t) ==
    Cardinality({ts \in timeslots :
                    is_available(t.availability, ts.day_index, ts.period_index)})

\* C15: on a non-success solve the reports hold an overallocation error for
\* teacher T, with required = the weekly periods of T's allocations and
\* available = the number of timeslots at which T is available, if and only
\* if required > available.
C15_TeacherOverallocation ==
    SolveHasFailed =>
        \A n \in DOMAIN teachers :
            LET about == {i \in OfKind(reports, "teacher_overallocated") :
                            reports[i].about = teachers[n].id}
            IN  /\ about # {} <=>
                      RequiredOfTeacher(teachers[n]) > AvailableOfTeacher(teachers[n])
                /\ \A i \in about :
                      /\ reports[i].severity = "error"
                      /\ reports[i].required = RequiredOfTeacher(teachers[n])
                      /\ reports[i].available = AvailableOfTeacher(teachers[n])

\* one teacher is reported with 3 required and 2 available, the other teacher
\* is not reported
C15_Witness ==
    /\ SolveHasFailed
    /\ \E i \in OfKind(reports, "teacher_overallocated") :
          reports[i].required = 3 /\ reports[i].available = 2
    /\ \E n \in DOMAIN teachers :
          \A i \in OfKind(reports, "teacher_overallocated") :
              reports[i].about # teachers[n].id

\* the last request was a generate that ran to its end, whatever the status
GenerateEnded == pc = "idle" /\ outcome \in {"master_timetable", "conflict_report"}

\* C16: when enumeration leaves an allocation with zero candidate tuples,
\* then at the end of the generate flow one error ConflictReport for that
\* allocation is persisted, whatever the solver's terminal status, OPTIMAL
\* and FEASIBLE included.
C16_ZeroCandidatesReported ==
    GenerateEnded =>
        \A n \in DOMAIN allocations :
            OfAllocation(create_variables, allocations[n]) = {} =>
                /\ Cardinality({i \in OfKind(reports, "no_candidates") :
                                    reports[i].about = allocations[n].id}) = 1
                /\ \A i \in OfKind(reports, "no_candidates") :
                      reports[i].severity = "error"

\* C17: replacing the conflict reports is atomic: the ConflictReport table
\* changes only by a reporter run that completes; a reporter that fails after
\* deleting the prior rows and before inserting the new ones leaves the prior
\* rows in the table.
C17_ReportReplaceIsAtomic ==
    [][reports' # reports => reporterRuns' > reporterRuns]_vars

(***************************************************************************)
(* Properties of generate_timeslots and of the settings row.               *)
(***************************************************************************)
\* the (day, period, start, end) of the rows, without their primary keys
SlotShapes(slots) ==
    {<<ts.day_index, ts.period_index, ts.start_time, ts.end_time>> : ts \in slots}

\* C18: after generate_timeslots the TimeSlot table holds exactly one slot for
\* every (day, period) with day in [0, days_per_week) and period in
\* [0, periods_before_break + periods_after_break) and no other slot; a run
\* that follows a run with the same settings yields the same set of
\* (day, period, start, end).
C18_TimeslotGrid ==
    [][outcome' = "timeslots_generated" =>
          LET s == FirstSettings
              days == 0..(s.days_per_week - 1)
              periods == 0..(s.periods_before_break + s.periods_after_break - 1)
          IN  /\ \A ts \in timeslots' : ts.day_index \in days /\ ts.period_index \in periods
              /\ \A day \in days, period \in periods :
                    Cardinality({ts \in timeslots' : ts.day_index = day
                                                      /\ ts.period_index = period}) = 1
              /\ outcome = "timeslots_generated"
                    => SlotShapes(timeslots') = SlotShapes(timeslots)]_vars

\* a second run in a row replaced the rows of a day whose lessons pass midnight
C18_Witness ==
    /\ outcome = "timeslots_generated"
    /\ Cardinality(timeslots) >= 4
    /\ \A ts \in timeslots : ts.id > Cardinality(timeslots)
    /\ \E ts \in timeslots : ts.end_time < ts.start_time

(***************************************************************************)
(* Properties of is_available.                                             *)
(***************************************************************************)
\* the items of a JSON object stored under the key of index, int or str
ItemsAt(items, index) ==
    {i \in DOMAIN items : items[i][1] \in {IntKey(index), Str(IntKey(index))}}

\* the stored boolean of (day, period), true when the day key or the period
\* key is missing, the day value is no mapping or the period value no boolean
StoredOrTrue(raw, day_index, period_index) ==
    \A i \in ItemsAt(raw, day_index) :
        raw[i][2].kind = "dict" =>
            \A j \in ItemsAt(raw[i][2].items, period_index) :
                raw[i][2].items[j][2].kind = "bool" =>
                    raw[i][2].items[j][2] = JBool(TRUE)

\* C19: is_available(day, period) of a teacher or a room is the stored
\* boolean when the (day, period) entry exists under numeric or string keys,
\* and true when the day key is missing, the period key is missing, the day
\* value is not a mapping or the period value is not a boolean (null, 0, "").
\* update_entry reports the teacher or the room unavailable exactly when
\* is_available is false.
C19_AvailabilityLookup ==
    [][\A e \in entries, ts \in timeslots :
          (/\ lastEdit'.entry_id = e.id
           /\ lastEdit'.timeslot_id = ts.id
           /\ lastEdit'.http_status # 500)
          => /\ (\E i \in DOMAIN lastEdit'.errors :
                      lastEdit'.errors[i] = "teacher_unavailable")
                   <=> ~StoredOrTrue(ById(teachers, e.teacher).availability,
                                     ts.day_index, ts.period_index)
             /\ (\E i \in DOMAIN lastEdit'.errors :
                      lastEdit'.errors[i] = "room_unavailable")
                   <=> ~StoredOrTrue(RequestedRoom(e, lastEdit'.room_id).availability,
                                     ts.day_index, ts.period_index)]_vars

(***************************************************************************)
(* Properties of SchoolSettings.save.                                      *)
(***************************************************************************)
\* C20: after any sequence of sequential SchoolSettings.save() calls on new
\* or existing instances at most one SchoolSettings row exists; saving a new
\* instance while a row exists overwrites that row (same primary key)
\* instead of adding a second one.
C20_SettingsSingleton ==
    [][/\ Cardinality(settings') <= 1
       /\ settings # {} => {row.pk : row \in settings'} = {row.pk : row \in settings}
       /\ outcome' = "settings_overwritten" =>
             \E instance \in SettingsValues :
                 settings' = {[instance EXCEPT !.pk = FirstSettings.pk]}]_vars

\* a new instance with other values was saved over the existing row
C20_Witness ==
    /\ outcome = "settings_overwritten"
    /\ Cardinality(settings) = 1
    /\ \A row \in settings : row.pk = 1 /\ row # GridSettings

(***************************************************************************)
(* Properties of the solve step and of the built model.                    *)
(***************************************************************************)
\* C21: when the solver's terminal status is MODEL_INVALID, generate
\* escalates an internal error: solve does not run the conflict reporter and
\* return (MODEL_INVALID, None) as it does for INFEASIBLE and UNKNOWN.
C21_ModelInvalidEscalates ==
    ~(/\ pc = "solved"
      /\ status = "MODEL_INVALID"
      /\ solution = NoSolution
      /\ reporterRuns >= 1
      /\ reports = generate_conflict_report(status, variables))

\* allocation, period_num, timeslot by (day_index, period_index), room id
RankByRoomId(k) ==
    <<AllocationIndex(k), k[6], SlotById(k[5]).day_index,
      SlotById(k[5]).period_index, k[4]>>

\* C22: create_variables emits the candidates in a fixed order: allocations
\* in persistence order, then period index ascending, then timeslots by
\* (day, period), then rooms by ascending id.
C22_CandidatesInFixedOrder ==
    pc = "add_constraints" =>
        \A k1 \in variables, k2 \in variables :
            LexLess(CreationRank(k1), CreationRank(k2))
                <=> LexLess(RankByRoomId(k1), RankByRoomId(k2))

\* the room has the subject's required type, or no room has it
RoomTypeAdmits(subject, room) ==
    \/ room.room_type = subject.requires_room_type
    \/ \A r \in Range(rooms) : r.room_type # subject.requires_room_type

\* C23: create_variables emits the candidate (class, subject, teacher, room,
\* slot, p) of an allocation and a period index p in [0, weekly_periods) if
\* and only if the teacher is available at the slot, the room is available at
\* the slot, the room's capacity is at least the class's student count, and
\* the room has the subject's required type or no room of that type exists;
\* consequently an allocation has candidates for every period index or none.
C23_CandidatesExactlyTheFeasible ==
    pc = "add_constraints" =>
        /\ \A k \in variables :
              \E i \in DOMAIN allocations :
                  /\ k \in OfAllocation(variables, allocations[i])
                  /\ k[6] \in 0..(ById(subjects, k[2]).weekly_periods - 1)
                  /\ \E ts \in timeslots : ts.id = k[5]
                  /\ \E room \in Range(rooms) : room.id = k[4]
        /\ \A i \in DOMAIN allocations :
              LET a == allocations[i]
                  subject == ById(subjects, a.subject)
                  periods == 0..(subject.weekly_periods - 1)
              IN  /\ \A p \in periods, ts \in timeslots, room \in Range(rooms) :
                        <<a.classgroup, a.subject, a.teacher, room.id, ts.id, p>> \in variables
                            <=> /\ teacher_is_available(a.teacher, ts)
                                /\ room_is_available(room, ts)
                                /\ room.capacity >= ById(classes, a.classgroup).student_count
                                /\ RoomTypeAdmits(subject, room)
                  /\ \/ \A p \in periods : \E k \in OfAllocation(variables, a) : k[6] = p
                     \/ OfAllocation(variables, a) = {}

\* candidates were emitted although the teacher and a room each have an
\* unavailable slot, a room is too small for the class and no room has the
\* required type
C23_Witness ==
    /\ pc = "add_constraints"
    /\ \E i \in DOMAIN allocations :
          LET a == allocations[i]
              subject == ById(subjects, a.subject)
          IN  /\ OfAllocation(variables, a) # {}
              /\ subject.weekly_periods > 1
              /\ \E ts \in timeslots : ~teacher_is_available(a.teacher, ts)
              /\ \E ts \in timeslots, room \in Range(rooms) : ~room_is_available(room, ts)
              /\ \E room \in Range(rooms) :
                    room.capacity < ById(classes, a.classgroup).student_count
              /\ \A room \in Range(rooms) : room.room_type # subject.requires_room_type

(***************************************************************************)
(* The objective: generate requests over one day of three periods, where   *)
(* a teacher's day has a window (before, gap, after) and a period index    *)
(* above 1.                                                                *)
(***************************************************************************)
\* one day: two periods, the break, one period
LongDaySettings == SchoolSettingsRow(1, 2, 1)

LongDaySlots == WithIds(NewTimeslots(LongDaySettings.days_per_week, LongDaySettings), 1)

\* 10A's Chemistry with Ada; also 10A's Drama with Bob, or 10A's Chemistry
\* with Bob as well (unique_together admits a second teacher)
SoftAllocationTables ==
    {<<Allocation(1, 1, 1, 1)>>,
     <<Allocation(1, 1, 1, 1), Allocation(3, 1, 2, 2)>>,
     <<Allocation(1, 1, 1, 1), Allocation(4, 1, 1, 2)>>}

InitSoft ==
    /\ settings = {LongDaySettings}
    /\ timeslots = LongDaySlots
    /\ nextSlotId = Cardinality(timeslots) + 1
    /\ \E avail \in {AlwaysAvailable, NoSecondPeriod} :
          rooms \in {<<MainRoom(avail)>>, <<Annex("classroom"), MainRoom(avail)>>}
    /\ \E avail \in {AlwaysAvailable, NotDay0Period1} : teachers = TeacherRows(avail)
    /\ classes = ClassRows
    /\ \E periods \in 1..2, room_type \in {"classroom", "lab"} :
          subjects = SubjectRows(periods, room_type, FALSE)
    /\ allocations \in SoftAllocationTables
    /\ entries = {}
    /\ nextEntryId = 1
    /\ reports = <<>>
    /\ Idle
    /\ outcome = "none"
    /\ solves = 0
    /\ entriesAtStart = entries
    /\ reporterRuns = 0
    /\ lastEdit = NoEdit
    /\ requests = NoRequests

SpecSoft == InitSoft /\ [][Next]_vars

\* the teacher has a lesson in the assignment at each of the window's outer
\* slots and none at its middle slot
ActualGap(w, items) ==
    /\ \E k \in Range(items) : k \in w.vars_before
    /\ \E k \in Range(items) : k \in w.vars_after
    /\ \A k \in Range(items) : k \notin w.vars_gap

\* C24: in every solution of the built model the gap indicator of a teacher,
\* a day and three consecutive periods (i, i+1, i+2) is 1 exactly when the
\* teacher has an assignment at period i, none at period i+1 and one at
\* period i+2.
C24_GapIndicatorMatchesGap ==
    (pc = "solved" /\ status \in {"OPTIMAL", "FEASIBLE"}) =>
        \A w \in model.gap_penalties :
            auxiliary.gap[w].gap_exists <=> ActualGap(w, solution.items)

\* C25: in the objective every candidate variable whose subject is difficult
\* and whose timeslot has period_index <= 1 receives the early-bias term -2
\* exactly once and every other candidate variable receives none, also when
\* two allocations share the class and the subject with different teachers.
C25_EarlyBiasOncePerVariable ==
    pc = "solve" =>
        \A k \in variables :
            model.early_terms[k] =
                IF /\ ById(subjects, k[2]).difficulty = "difficult"
                   /\ SlotById(k[5]).period_index <= 1
                THEN 1 ELSE 0

\* C26: in every feasible solution the allocated indicator of every
\* (allocation, period) that has a candidate is 1, so the -50 terms add the
\* same constant to every feasible solution, and the optimal solutions are
\* those of the objective without these terms.
C26_AllocatedTermsAreConstant ==
    /\ (pc = "solved" /\ status \in {"OPTIMAL", "FEASIBLE"}) =>
          \A a \in model.allocated_vars : auxiliary.allocated[a]
    /\ pc = "solve" =>
          /\ \A s \in FullSolutions(variables, model), t \in FullSolutions(variables, model) :
                Objective(s[1], s[2], model) - ObjectiveWithoutAllocated(s[1], s[2], model)
                    = Objective(t[1], t[2], model)
                        - ObjectiveWithoutAllocated(t[1], t[2], model)
          /\ {s \in FullSolutions(variables, model) :
                \A t \in FullSolutions(variables, model) :
                    Objective(s[1], s[2], model) <= Objective(t[1], t[2], model)}
             = {s \in FullSolutions(variables, model) :
                \A t \in FullSolutions(variables, model) :
                    ObjectiveWithoutAllocated(s[1], s[2], model)
                        <= ObjectiveWithoutAllocated(t[1], t[2], model)}

\* a solved model with several allocated indicators, all of them 1, and
\* with solutions of different objective values
C26_Witness ==
    /\ pc = "solved"
    /\ status \in {"OPTIMAL", "FEASIBLE"}
    /\ \E a \in model.allocated_vars, b \in model.allocated_vars :
          a # b /\ auxiliary.allocated[a] /\ auxiliary.allocated[b]
    /\ \E x \in Solutions(variables, model) :
          \E v \in AuxiliaryValues(x, model) :
              Objective(x, v, model)
                  # Objective(Range(solution.items), auxiliary, model)

\* C27: in every successfully generated timetable the number of entries of
\* a teacher does not exceed the teacher's max_periods_week.
C27_TeacherWithinMaxPeriods ==
    GenerateSucceeded =>
        \A t \in Range(teachers) :
            Cardinality({e \in entries : e.teacher = t.id}) <= t.max_periods_week

(***************************************************************************)
(* Two update_entry requests processed together.  The view opens no        *)
(* transaction and takes no lock: its look-ups, its validation queries and *)
(* its entry.save() are separate statements, and the statements of the     *)
(* other request can run between them.  The three exists() queries of one  *)
(* validation are taken as one step.                                       *)
(***************************************************************************)
\* new_room = Room.objects.get(id=new_room_id) if new_room_id else entry.room
NewRoom(entry, room_id) == ById(rooms, IF room_id # 0 THEN room_id ELSE entry.room)

Finished(r, entry, response) ==
    /\ requests' = [requests EXCEPT ![r] = [pc |-> "done", entry |-> entry,
                                             response |-> response]]
    /\ lastEdit' = response

\* json.loads and the objects.get(...) of the entry, the timeslot and the room
ReceiveRequest(r, entry_id, timeslot_id, room_id) ==
    /\ pc = "idle"
    /\ requests[r].pc = "none"
    /\ IF ~RowsExist(entry_id, timeslot_id, room_id)
       THEN Finished(r, <<>>, Response(entry_id, timeslot_id, room_id, 500, <<>>))
       ELSE /\ requests' =
                  [requests EXCEPT ![r] =
                      [pc |-> "loaded",
                       entry |-> CHOOSE e \in entries : e.id = entry_id,
                       response |-> Response(entry_id, timeslot_id, room_id, 0, <<>>)]]
            /\ UNCHANGED lastEdit
    /\ UNCHANGED <<settings, timeslots, nextSlotId, staticVars, entries, nextEntryId,
                   reports, pc, solverVars, txEntries, outcome, solves, entriesAtStart,
                   reporterRuns>>

\* the checks, on the rows as they are when the queries run
ValidateRequest(r) ==
    /\ requests[r].pc = "loaded"
    /\ LET entry == requests[r].entry
           q == requests[r].response
           errors == Violations(entry, SlotById(q.timeslot_id), NewRoom(entry, q.room_id))
       IN  IF errors # <<>>
           THEN Finished(r, entry, Response(q.entry_id, q.timeslot_id, q.room_id, 400, errors))
           ELSE /\ requests' = [requests EXCEPT ![r].pc = "validated"]
                /\ UNCHANGED lastEdit
    /\ UNCHANGED <<settings, timeslots, nextSlotId, staticVars, entries, nextEntryId,
                   reports, pc, solverVars, txEntries, outcome, solves, entriesAtStart,
                   reporterRuns>>

\* entry.save(): an UPDATE of every column of the row from the loaded object
SaveRequest(r) ==
    /\ requests[r].pc = "validated"
    /\ LET entry == requests[r].entry
           q == requests[r].response
       IN  /\ entries' = {e \in entries : e.id # entry.id}
                  \cup {Moved(entry, SlotById(q.timeslot_id), NewRoom(entry, q.room_id)) :
                          e \in {o \in entries : o.id = entry.id}}
           /\ Finished(r, entry, Response(q.entry_id, q.timeslot_id, q.room_id, 200, <<>>))
    /\ UNCHANGED <<settings, timeslots, nextSlotId, staticVars, nextEntryId,
                   reports, pc, solverVars, txEntries, outcome, solves, entriesAtStart,
                   reporterRuns>>

NextConcurrent ==
    \E r \in Requests :
        \/ \E entry_id \in EntryIds, timeslot_id \in SlotIds, room_id \in RoomIds :
              ReceiveRequest(r, entry_id, timeslot_id, room_id)
        \/ ValidateRequest(r)
        \/ SaveRequest(r)

SpecConcurrent == InitEdit /\ [][NextConcurrent]_vars

\* C28: no interleaving of the validation reads and the writes of two
\* concurrently processed update_entry requests lets both be accepted and
\* leave two entries that share a teacher, a class or a room at one timeslot.
C28_ConcurrentEditsKeepNoDoubleBooking ==
    (\A r \in Requests : requests[r].pc = "done" /\ requests[r].response.success)
        => NoDoubleBooking(entries)

(***************************************************************************)
(* Frame properties of generate_timeslots and update_entry.                *)
(***************************************************************************)
\* C29: a generate_timeslots call that regenerates the grid removes every
\* TimetableEntry that existed before it, the locked ones included, as each
\* references a deleted TimeSlot; afterwards no entry references a slot that
\* no longer exists.
C29_TimeslotRegenerationClearsEntries ==
    [][outcome' = "timeslots_generated" =>
          /\ \A e \in entries : e \notin entries'
          /\ \A e \in entries' : \E ts \in timeslots' : ts.id = e.timeslot]_vars

\* the grid was regenerated over a locked and a non-locked entry
C29_Witness ==
    /\ outcome = "timeslots_generated"
    /\ timeslots # {}
    /\ {LockedEntry, StaleEntry} \subseteq entriesAtStart
    /\ entries = {}

\* C30: an accepted update_entry changes only the timeslot and the room of
\* the targeted entry: its teacher, class, subject and is_locked flag and
\* every other row are unchanged; the room stays the entry's room when no
\* room id is given, and a locked entry is moved like any other.
C30_AcceptedMoveChangesSlotAndRoomOnly ==
    [][lastEdit'.success =>
          \E e \in entries :
              /\ e.id = lastEdit'.entry_id
              /\ entries' \ {m \in entries' : m.id = e.id} = entries \ {e}
              /\ \E m \in entries' :
                    /\ m.id = e.id
                    /\ m.teacher = e.teacher
                    /\ m.classgroup = e.classgroup
                    /\ m.subject = e.subject
                    /\ m.is_locked = e.is_locked
                    /\ m.timeslot = lastEdit'.timeslot_id
                    /\ m.room = (IF lastEdit'.room_id = 0 THEN e.room
                                 ELSE lastEdit'.room_id)
              /\ Cardinality(entries') = Cardinality(entries)]_vars

\* a locked entry was moved to another timeslot by a request without room id
C30_Witness ==
    /\ lastEdit.success
    /\ lastEdit.room_id = 0
    /\ \E e \in entries :
          /\ e.id = lastEdit.entry_id
          /\ e.is_locked
          /\ e.timeslot = lastEdit.timeslot_id
          /\ e \notin entriesAtStart

=============================================================================
